---- MODULE Spec2Model ----
(***************************************************************************)
(* Model of the Project Implementation Planner (src/app_new.py,            *)
(* src/src/handlers.py, src/src/api.py, src/src/session.py).               *)
(*                                                                         *)
(* One step of the model is one run of main(): the script is executed from *)
(* the top with at most one widget event (reset button, search button,     *)
(* chat text) or with none (a rerun requested by st.rerun(), or a manual   *)
(* rerun of the page).  The session fields are the variables; the answers  *)
(* of the external services are the inputs of each run.                    *)
(***************************************************************************)
EXTENDS Integers, Sequences, FiniteSets, TLC

(***************************************************************************)
(* Bounds of the model.                                                    *)
(***************************************************************************)
MaxMessages == 9
MaxIdeaLen == 3
MaxRankCandidates == 3
MaxInputLen == 600
MaxTerms == 4
MaxProviderResults == 6
MaxQueryWords == 11

(***************************************************************************)
(* Program constants.                                                      *)
(***************************************************************************)
\* faulty variant of ClarityThreshold: a rating of 8 is not clear enough
ClarityThresholdStrict == 8 + 1
ClarityThreshold == 8
NoClientRating == 7
ErrorRating == 5
NoClientScore == 3
ErrorScore == 1
MaxResults == 5

(***************************************************************************)
(* Input alphabets.                                                        *)
(***************************************************************************)
Prompts == {<<"a">>, <<"b">>}
LlmRatings == {7, 8}
Urls == {"u1", "u2"}
LlmScores == {7}

VARIABLES
    messages,                  \* st.session_state.messages (tags of the messages)
    project_summary,
    search_results,
    selected_project,
    enhancement_plan,
    idea_rating,
    idea_reflection,
    awaiting_clarification,
    original_idea,
    evaluation_state,
    evaluations,
    auto_search,
    current_stage,
    plan_file,                 \* implementation_plan.txt exists on disk
    rerun_pending,             \* the last run ended in st.rerun()
    outcome,                   \* handler that the last run reached, and how it ended
    calls,                     \* services called during the last run, in call order
    rate_arg,                  \* text of the last evaluate_idea_clarity call
    summarize_arg,             \* text of the last process_project_summary call
    search_arg,                \* inputs of the query of the last search_github_projects call
    select_call,               \* arguments and result of the last select_best_project call
    texts,                     \* the texts handled as idea or clarification since the reset
    skip_taken,                \* the search button was pressed while awaiting
                               \* clarification with a rating below the threshold
    query_run,                 \* lengths of the inputs and of the query of a query assembly
    service_run                \* input and result of a service function called on its own

vars == <<messages, project_summary, search_results, selected_project,
          enhancement_plan, idea_rating, idea_reflection, awaiting_clarification,
          original_idea, evaluation_state, evaluations, auto_search, current_stage,
          plan_file, rerun_pending, outcome, calls, rate_arg, summarize_arg,
          search_arg, select_call, texts, skip_taken, query_run, service_run>>

session == <<messages, project_summary, search_results, selected_project,
             enhancement_plan, idea_rating, idea_reflection, awaiting_clarification,
             original_idea, evaluation_state, evaluations, auto_search, current_stage>>

(***************************************************************************)
(* Values.  Python's None is a record of kind "none", so that every value  *)
(* of a field has the same shape.                                          *)
(***************************************************************************)
NoSummary == [kind |-> "none", tech |-> "none", of |-> <<>>]
NoResults == [kind |-> "none", err |-> "", items |-> <<>>]
NoProject == [kind |-> "none", pos |-> 0, url |-> "", reason |-> "", marked |-> FALSE]
NoPlan == [kind |-> "none", steps |-> "none", by |-> "none", description |-> "none"]
NoDocument == [kind |-> "none", steps |-> "none", description |-> "none"]
NoQuery == [idea |-> <<>>, summary |-> NoSummary]
NoSelect == [evals |-> <<>>, mode |-> "none", index |-> 0, result |-> NoProject]
NoServiceRun == [fn |-> "none"]
NoQueryRun == [phase |-> "none", handler |-> "none", idea_len |-> 0, purpose_len |-> 0,
               purpose_is_idea |-> FALSE, platform_len |-> 0, tech_terms |-> <<>>,
               assembled_len |-> 0, truncated_len |-> 0, submitted_len |-> 0]

\* bool(x) of Python for the session fields main() tests
Truthy(v) == v.kind # "none"
IsErrorMarker(results) == results.kind = "error"
IsList(results) == results.kind = "list"

NoReflection == [kind |-> "empty", of |-> <<>>]

(***************************************************************************)
(* External services, as functions of the service's answer.                *)
(***************************************************************************)
RatingAnswers == {[mode |-> "no_client", rating |-> 0], [mode |-> "error", rating |-> 0]}
                 \cup {[mode |-> "ok", rating |-> r] : r \in LlmRatings}
SummaryAnswers == {"no_client", "error", "str", "list"}

\* evaluate_idea_clarity: (rating, reflection) for the text and the service's answer
evaluate_idea_clarity(idea_text, answer) ==
    IF answer.mode = "no_client"
    THEN [rating |-> NoClientRating, reflection |-> [kind |-> "busy", of |-> <<>>]]
    ELSE IF answer.mode = "ok"
    THEN [rating |-> answer.rating, reflection |-> [kind |-> "llm", of |-> idea_text]]
    ELSE [rating |-> ErrorRating, reflection |-> [kind |-> "apology", of |-> <<>>]]

\* process_project_summary: the summary dict; answer "str"/"list" is a parsed
\* answer whose "Tech Stack" value is a string / a JSON array
process_project_summary(prompt, answer) ==
    IF answer \in {"no_client", "error"}
    THEN [kind |-> "error", tech |-> "none", of |-> <<>>]
    ELSE [kind |-> "summary", tech |-> answer, of |-> prompt]

\* the keys of the dict process_project_summary returned
CanonicalKeys == {"project_purpose", "platform", "tech_stack", "key_features"}
SummaryKeys(summary) ==
    IF summary.kind = "summary" THEN CanonicalKeys
    ELSE IF summary.kind = "error" THEN {"error"}
    ELSE {}

\* add_message: the message is put at the end of the chat history
add_message_front(msgs, message) == <<message>> \o msgs

add_message(msgs, message) == Append(msgs, message)

(***************************************************************************)
(* Session construction and reset.                                         *)
(***************************************************************************)
init_session_state ==
    /\ messages = <<>>
    /\ project_summary = NoSummary
    /\ search_results = NoResults
    /\ selected_project = NoProject
    /\ enhancement_plan = NoPlan
    /\ idea_rating = 0
    /\ idea_reflection = NoReflection
    /\ awaiting_clarification = FALSE
    /\ original_idea = <<>>
    /\ evaluation_state = "not_started"
    /\ evaluations = <<>>
    /\ auto_search = FALSE
    /\ current_stage = "not_started"

\* faulty variant of reset_session_state: the flags of the conversation and the
\* files are left as they are
reset_session_state_partial ==
    /\ messages' = <<>>
    /\ project_summary' = NoSummary
    /\ search_results' = NoResults
    /\ selected_project' = NoProject
    /\ enhancement_plan' = NoPlan
    /\ idea_rating' = 0
    /\ idea_reflection' = NoReflection
    /\ original_idea' = <<>>
    /\ evaluation_state' = "not_started"
    /\ evaluations' = <<>>
    /\ current_stage' = "not_started"
    /\ calls' = <<>>
    /\ UNCHANGED <<awaiting_clarification, auto_search, plan_file>>
reset_session_state ==
    /\ messages' = <<>>
    /\ project_summary' = NoSummary
    /\ search_results' = NoResults
    /\ selected_project' = NoProject
    /\ enhancement_plan' = NoPlan
    /\ idea_rating' = 0
    /\ idea_reflection' = NoReflection
    /\ awaiting_clarification' = FALSE
    /\ original_idea' = <<>>
    /\ evaluation_state' = "not_started"
    /\ evaluations' = <<>>
    /\ auto_search' = FALSE
    /\ current_stage' = "not_started"
    \* clean_project_files: os.remove is attempted on an existing file, and an
    \* exception of the removal is swallowed
    /\ calls' = <<"clean_project_files">>
    /\ plan_file' \in {FALSE, plan_file}

Init ==
    /\ init_session_state
    /\ plan_file = FALSE
    /\ rerun_pending = FALSE
    /\ outcome = "init"
    /\ calls = <<>>
    /\ rate_arg = <<>>
    /\ summarize_arg = <<>>
    /\ search_arg = NoQuery
    /\ select_call = NoSelect
    /\ texts = <<>>
    /\ skip_taken = FALSE
    /\ query_run = NoQueryRun
    /\ service_run = NoServiceRun

(***************************************************************************)
(* Handlers.  msgs is the message list when the handler is entered.        *)
(***************************************************************************)
handle_initial_message(prompt, msgs) ==
    \E ra \in RatingAnswers, sa \in SummaryAnswers :
        LET ev == evaluate_idea_clarity(prompt, ra)
            initial_summary == process_project_summary(prompt, sa)
        IN  /\ original_idea' = prompt
            /\ idea_rating' = ev.rating
            /\ idea_reflection' = ev.reflection
            /\ project_summary' = initial_summary
            /\ IF ev.rating < ClarityThreshold
               THEN /\ awaiting_clarification' = TRUE
                    /\ auto_search' = auto_search
               ELSE /\ awaiting_clarification' = FALSE
                    /\ auto_search' = TRUE
            /\ messages' = add_message(msgs, "assistant:initial")
            /\ rerun_pending' = TRUE
            /\ outcome' = "initial"
            /\ calls' = <<"rate", "summarize">>
            /\ rate_arg' = prompt
            /\ summarize_arg' = prompt
            /\ UNCHANGED <<search_results, selected_project, enhancement_plan,
                           evaluation_state, evaluations, current_stage, plan_file,
                           search_arg, select_call>>

\* faulty variant of combine_idea: the clarification is put in front
combine_idea_reversed(idea, prompt) == prompt \o <<" ">> \o idea
\* f"{original_idea} {prompt}"
combine_idea(idea, prompt) == idea \o <<" ">> \o prompt

\* faulty variant of handle_clarification: a clear idea sets the auto-advance flag
\* but the session goes on awaiting clarification
handle_clarification_keeps_awaiting(prompt, msgs) ==
    \E ra \in RatingAnswers, sa \in SummaryAnswers :
        LET combined_idea == combine_idea(original_idea, prompt)
            ev == evaluate_idea_clarity(combined_idea, ra)
            updated_summary == process_project_summary(combined_idea, sa)
        IN  /\ original_idea' = combined_idea
            /\ idea_rating' = ev.rating
            /\ project_summary' = updated_summary
            /\ IF ev.rating >= ClarityThreshold
               THEN /\ awaiting_clarification' = awaiting_clarification
                    /\ auto_search' = TRUE
               ELSE /\ UNCHANGED <<awaiting_clarification, auto_search>>
            /\ messages' = add_message(msgs, "assistant:clarification")
            /\ rerun_pending' = FALSE
            /\ outcome' = "clarification"
            /\ calls' = <<"rate", "summarize">>
            /\ rate_arg' = combined_idea
            /\ summarize_arg' = combined_idea
            /\ UNCHANGED <<idea_reflection, search_results, selected_project,
                           enhancement_plan, evaluation_state, evaluations,
                           current_stage, plan_file, search_arg, select_call>>
handle_clarification(prompt, msgs) ==
    \E ra \in RatingAnswers, sa \in SummaryAnswers :
        LET combined_idea == combine_idea(original_idea, prompt)
            ev == evaluate_idea_clarity(combined_idea, ra)
            updated_summary == process_project_summary(combined_idea, sa)
        IN  /\ original_idea' = combined_idea
            /\ idea_rating' = ev.rating
            /\ project_summary' = updated_summary
            /\ IF ev.rating >= ClarityThreshold
               THEN /\ awaiting_clarification' = FALSE
                    /\ auto_search' = TRUE
               ELSE /\ UNCHANGED <<awaiting_clarification, auto_search>>
            /\ messages' = add_message(msgs, "assistant:clarification")
            /\ rerun_pending' = FALSE
            /\ outcome' = "clarification"
            /\ calls' = <<"rate", "summarize">>
            /\ rate_arg' = combined_idea
            /\ summarize_arg' = combined_idea
            /\ UNCHANGED <<idea_reflection, search_results, selected_project,
                           enhancement_plan, evaluation_state, evaluations,
                           current_stage, plan_file, search_arg, select_call>>

(***************************************************************************)
(* Repository search.                                                      *)
(***************************************************************************)
\* the answers of the search provider in the controller's specification hold one
\* repository; SpecRank below runs the ranking on the longer lists
CandidateLists == {<<[url |-> u]>> : u \in Urls}
SearchAnswers == {[kind |-> "no_key", items |-> <<>>], [kind |-> "failed", items |-> <<>>],
                  [kind |-> "empty", items |-> <<>>]}
                 \cup {[kind |-> "found", items |-> l] : l \in CandidateLists}

\* "github.com" in result.get("url", ""): the URL "other" stands for every URL of
\* another host, and for a result without URL
IsGithubResult(result) == result.url # "other"

\* faulty variant of search_github_projects: the results that are left after the
\* filter are returned as they are, also when none is left
search_github_projects_unchecked(query, answer) ==
    IF answer.kind = "no_key"
    THEN [kind |-> "error", err |-> "unavailable", items |-> <<>>]
    ELSE IF answer.kind = "failed"
    THEN [kind |-> "error", err |-> "search_failed", items |-> <<>>]
    ELSE [kind |-> "list", err |-> "", items |-> SelectSeq(answer.items, IsGithubResult)]
\* search_github_projects: a list of candidates or a dict with an error message;
\* kind "failed" is a search whose retry raised as well, kind "retried" one whose
\* retry returned
search_github_projects(query, answer) ==
    LET github_projects == SelectSeq(answer.items, IsGithubResult)
    IN  IF answer.kind = "no_key"
        THEN [kind |-> "error", err |-> "unavailable", items |-> <<>>]
        ELSE IF answer.kind = "failed"
        THEN [kind |-> "error", err |-> "search_failed", items |-> <<>>]
        ELSE IF github_projects = <<>>
        THEN [kind |-> "error", err |-> "no_relevant", items |-> <<>>]
        ELSE [kind |-> "list", err |-> "",
              items |-> SubSeq(github_projects, 1, IF Len(github_projects) > MaxResults
                                                   THEN MaxResults ELSE Len(github_projects))]

\* the query both handlers assemble: the original idea, enriched from the summary
\* when the summary is a dict
search_query(idea, summary) ==
    IF ~Truthy(summary) THEN [idea |-> idea, summary |-> NoSummary]
    ELSE [idea |-> idea, summary |-> summary]

\* tech_stack.split(',') raises AttributeError when the summary's tech_stack is a list
QueryRaises(summary) == Truthy(summary) /\ summary.kind = "summary" /\ summary.tech = "list"

\* faulty variant of evaluation_state_after_search: the user is asked how to use
\* the repositories
evaluation_state_after_choice == "github_usage_choice"
\* the state a search that found repositories puts the evaluation in (line 183)
evaluation_state_after_search == "start"

\* handle_github_search; the exception of the query assembly is not caught by
\* the handler nor by main(), it ends the run
handle_github_search(msgs) ==
    IF QueryRaises(project_summary)
    THEN /\ messages' = msgs
         /\ rerun_pending' = FALSE
         /\ outcome' = "search_crash"
         /\ calls' = <<>>
         /\ UNCHANGED <<project_summary, search_results, selected_project,
                        enhancement_plan, idea_rating, idea_reflection,
                        awaiting_clarification, original_idea, evaluation_state,
                        evaluations, current_stage, plan_file, rate_arg,
                        summarize_arg, search_arg, select_call>>
    ELSE \E answer \in SearchAnswers :
        LET query == search_query(original_idea, project_summary)
            results == search_github_projects(query, answer)
        IN  /\ search_results' = results
            /\ IF IsErrorMarker(results)
               THEN /\ messages' = add_message(msgs, "assistant:search_error")
                    /\ UNCHANGED evaluation_state
                    /\ rerun_pending' = FALSE
                    /\ outcome' = "search_err"
               ELSE /\ messages' = add_message(msgs, "assistant:search_found")
                    /\ evaluation_state' = evaluation_state_after_search
                    /\ rerun_pending' = TRUE
                    /\ outcome' = "search_ok"
            /\ calls' = <<"search">>
            /\ search_arg' = query
            /\ UNCHANGED <<project_summary, selected_project, enhancement_plan,
                           idea_rating, idea_reflection, awaiting_clarification,
                           original_idea, evaluations, current_stage, plan_file,
                           rate_arg, summarize_arg, select_call>>

\* faulty variant of skip_clarification: a failed skip loses the idea
skip_clarification_forgets_idea(summary_data) ==
    /\ awaiting_clarification' = FALSE
    /\ evaluation_state' = "not_started"
    /\ IF QueryRaises(summary_data)
       THEN /\ outcome' = "skip_failed"                 \* returns False
            /\ calls' = <<>>
            /\ rerun_pending' = FALSE
            /\ UNCHANGED <<messages, search_results, search_arg>>
            /\ original_idea' = <<>>
       ELSE \E answer \in SearchAnswers :
            LET query == search_query(original_idea, summary_data)
                results == search_github_projects(query, answer)
            IN  /\ search_results' = results
                /\ messages' = add_message(messages,
                                           IF IsErrorMarker(results)
                                           THEN "assistant:skip_search_error"
                                           ELSE "assistant:skip_search_found")
                /\ outcome' = IF IsErrorMarker(results) THEN "skip_err" ELSE "skip_ok"
                /\ calls' = <<"search">>
                /\ search_arg' = query
                /\ rerun_pending' = TRUE
                /\ UNCHANGED original_idea
    /\ UNCHANGED <<project_summary, selected_project, enhancement_plan, idea_rating,
                   idea_reflection, evaluations, auto_search,
                   current_stage, plan_file, rate_arg, summarize_arg, select_call>>
\* the button's branch of main() (awaiting_clarification = False) followed by
\* skip_clarification(project_summary)
skip_clarification(summary_data) ==
    /\ awaiting_clarification' = FALSE
    /\ evaluation_state' = "not_started"
    /\ IF QueryRaises(summary_data)
       THEN /\ outcome' = "skip_failed"                 \* returns False
            /\ calls' = <<>>
            /\ rerun_pending' = FALSE
            /\ UNCHANGED <<messages, search_results, search_arg>>
       ELSE \E answer \in SearchAnswers :
            LET query == search_query(original_idea, summary_data)
                results == search_github_projects(query, answer)
            IN  /\ search_results' = results
                /\ messages' = add_message(messages,
                                           IF IsErrorMarker(results)
                                           THEN "assistant:skip_search_error"
                                           ELSE "assistant:skip_search_found")
                /\ outcome' = IF IsErrorMarker(results) THEN "skip_err" ELSE "skip_ok"
                /\ calls' = <<"search">>
                /\ search_arg' = query
                /\ rerun_pending' = TRUE                \* returns True, st.rerun()
    /\ UNCHANGED <<project_summary, selected_project, enhancement_plan, idea_rating,
                   idea_reflection, original_idea, evaluations, auto_search,
                   current_stage, plan_file, rate_arg, summarize_arg, select_call>>

(***************************************************************************)
(* Repository ranking.                                                     *)
(***************************************************************************)
ScoreAnswers == {[mode |-> "no_client", score |-> 0], [mode |-> "error", score |-> 0]}
                \cup {[mode |-> "ok", score |-> sc] : sc \in LlmScores}

\* evaluate_repository: the evaluation of the candidate at position pos of the
\* search results; reason is the "reason" key of its project dict ("" = absent)
evaluate_repository(pos, url, answer) ==
    [pos |-> pos, url |-> url,
     suitability_score |-> IF answer.mode = "no_client" THEN NoClientScore
                           ELSE IF answer.mode = "error" THEN ErrorScore
                           ELSE answer.score,
     reason |-> "", is_best_match |-> FALSE, best_match_reason |-> "", marked |-> FALSE]

\* faulty variant of evaluate_candidates: an evaluation is put in front of the
\* earlier ones
RECURSIVE evaluate_candidates_prepending(_, _, _, _)
evaluate_candidates_prepending(items, answers, i, done) ==
    IF i > Len(items) THEN done
    ELSE evaluate_candidates_prepending(
             items, answers, i + 1,
             <<evaluate_repository(i, items[i].url, answers[i])>> \o done)
\* the loop over search_results of the "start" step: each project is inspected
\* and scored, and its evaluation is appended, before the next one is taken
RECURSIVE evaluate_candidates(_, _, _, _)
evaluate_candidates(items, answers, i, done) ==
    IF i > Len(items) THEN done
    ELSE evaluate_candidates(
             items, answers, i + 1,
             Append(done, evaluate_repository(i, items[i].url, answers[i])))

\* faulty variant of MaxFrom: a later element of equal score replaces the best
RECURSIVE MaxFromLast(_, _, _)
MaxFromLast(evals, i, best) ==
    IF i > Len(evals) THEN best
    ELSE IF evals[i].suitability_score >= evals[best].suitability_score
         THEN MaxFromLast(evals, i + 1, i)
         ELSE MaxFromLast(evals, i + 1, best)
\* max(evaluations, key=score): the first element is kept until a strictly
\* greater one is met
RECURSIVE MaxFrom(_, _, _)
MaxFrom(evals, i, best) ==
    IF i > Len(evals) THEN best
    ELSE IF evals[i].suitability_score > evals[best].suitability_score
         THEN MaxFrom(evals, i + 1, i)
         ELSE MaxFrom(evals, i + 1, best)
MaxByScore(evals) == evals[MaxFrom(evals, 2, 1)]

\* faulty variant of InsertDesc: an unstable sort, an element is placed in front
\* of the elements of equal score
RECURSIVE InsertDescUnstable(_, _)
InsertDescUnstable(sorted, e) ==
    IF sorted = <<>> THEN <<e>>
    ELSE IF Head(sorted).suitability_score > e.suitability_score
         THEN <<Head(sorted)>> \o InsertDescUnstable(Tail(sorted), e)
         ELSE <<e>> \o sorted
\* list.sort / sorted with key=score, reverse=True: a stable sort; an element is
\* placed behind every element whose score is greater or equal
RECURSIVE InsertDesc(_, _)
InsertDesc(sorted, e) ==
    IF sorted = <<>> THEN <<e>>
    ELSE IF Head(sorted).suitability_score >= e.suitability_score
         THEN <<Head(sorted)>> \o InsertDesc(Tail(sorted), e)
         ELSE <<e>> \o sorted
RECURSIVE SortDesc(_)
SortDesc(evals) ==
    IF evals = <<>> THEN <<>>
    ELSE InsertDesc(SortDesc(SubSeq(evals, 1, Len(evals) - 1)), evals[Len(evals)])

ProjectOf(e, reason) ==
    [kind |-> "project", pos |-> e.pos, url |-> e.url, reason |-> reason, marked |-> e.marked]
Sentinel(title) == [kind |-> title, pos |-> 0, url |-> "", reason |-> "", marked |-> FALSE]

SelectAnswers(n) == {[mode |-> m, index |-> 0] : m \in {"no_client", "raises", "unparsable", "missing"}}
                    \cup {[mode |-> "index", index |-> k] : k \in 0..(n + 1)}

\* faulty variant of indexed_evaluation: the index is applied to the list sorted
\* by score
indexed_evaluation_sorted(evals, best_index) ==
    IF best_index < 0 \/ best_index >= Len(evals)
    THEN MaxByScore(evals)
    ELSE SortDesc(evals)[best_index + 1]
\* the evaluation the 0-based index of the selection service stands for: the
\* element of the list as it was passed, the best score for an index out of range
indexed_evaluation(evals, best_index) ==
    IF best_index < 0 \/ best_index >= Len(evals)
    THEN MaxByScore(evals)
    ELSE evals[best_index + 1]

\* faulty variant of select_best_project: a single evaluation is ranked like a
\* longer list
select_best_project_ranks_single(evals, answer) ==
    IF Len(evals) = 0 THEN Sentinel("no_valid_project")
    ELSE IF answer.mode = "no_client" THEN ProjectOf(MaxByScore(evals), "by_score")
    ELSE IF answer.mode = "raises" THEN ProjectOf(SortDesc(evals)[1], "by_score")
    ELSE IF answer.mode = "unparsable" THEN ProjectOf(MaxByScore(evals), "llm")
    ELSE LET best_index == (IF answer.mode = "missing" THEN 1 ELSE answer.index) - 1
         IN  ProjectOf(indexed_evaluation(evals, best_index), "llm")
\* select_best_project: the project dict it returns, with its "reason" key
select_best_project(evals, answer) ==
    IF Len(evals) = 0 THEN Sentinel("no_valid_project")
    ELSE IF Len(evals) = 1 THEN ProjectOf(evals[1], "only_project")
    ELSE IF answer.mode = "no_client" THEN ProjectOf(MaxByScore(evals), "by_score")
    ELSE IF answer.mode = "raises" THEN ProjectOf(SortDesc(evals)[1], "by_score")
    ELSE IF answer.mode = "unparsable" THEN ProjectOf(MaxByScore(evals), "llm")
    ELSE LET best_index == (IF answer.mode = "missing" THEN 1 ELSE answer.index) - 1
         IN  ProjectOf(indexed_evaluation(evals, best_index), "llm")

\* how select_best_project used the selection service: the returns for an empty
\* list and for a single evaluation come before the client is obtained
selection_service(evals, answer) ==
    IF Len(evals) < 2 THEN [mode |-> "not_called", index |-> 0]
    ELSE [mode |-> answer.mode, index |-> answer.index]

\* the loop of lines 246-253: flags by URL; the returned dict is the project
\* dict of one evaluation, so that evaluation's project carries the reason
MarkBest(sorted, best_project) ==
    [i \in 1..Len(sorted) |->
        LET e == [sorted[i] EXCEPT !.reason = IF sorted[i].pos = best_project.pos
                                              THEN best_project.reason ELSE @]
        IN  IF e.url = best_project.url
            THEN [e EXCEPT !.is_best_match = TRUE,
                           !.best_match_reason = best_project.reason,
                           !.marked = TRUE]
            ELSE [e EXCEPT !.is_best_match = FALSE]]

\* next(project of the first best match, default evaluations[0]["project"])
RECURSIVE FirstBest(_, _)
FirstBest(evals, i) ==
    IF i > Len(evals) THEN 1
    ELSE IF evals[i].is_best_match THEN i ELSE FirstBest(evals, i + 1)

(***************************************************************************)
(* Evaluation and planning.                                                *)
(***************************************************************************)
\* the answers of the plan service: no client, a failed call or an answer that
\* is not JSON ("error"), or a parsed answer: complete ("ok"), without a list of
\* steps ("no_steps"), with steps that are not dicts ("bad_steps"), without the
\* description key ("no_desc"), with the description "" ("empty_desc")
PlanAnswers == {"no_client", "error", "ok", "no_steps", "bad_steps", "no_desc", "empty_desc"}
DocumentAnswers == {"llm", "no_client", "error"}

\* create_enhancement_plan / create_simplified_plan: both return a dict with a
\* description and a list of steps; unavailable, missing and failed are the
\* descriptions the function sets when it has no client, when the answer has no
\* description, and when the call raised
plan_of(answer, by, unavailable, missing, failed) ==
    [kind |-> "plan", by |-> by,
     steps |-> IF answer \in {"ok", "no_desc", "empty_desc"} THEN "ok"
               ELSE IF answer = "bad_steps" THEN "malformed" ELSE "none",
     description |-> IF answer = "no_client" THEN unavailable
                     ELSE IF answer = "error" THEN failed
                     ELSE IF answer = "no_desc" THEN missing
                     ELSE IF answer = "empty_desc" THEN ""
                     ELSE "llm"]
create_enhancement_plan(answer) ==
    plan_of(answer, "primary", "Unable to generate enhancement plan",
            "No enhancement description provided.", "Error creating enhancement plan")
create_simplified_plan(answer) ==
    plan_of(answer, "simplified", "Plan to adapt the GitHub project to meet requirements.",
            "Plan to adapt the GitHub project to meet requirements.",
            "Adapt the GitHub project to meet the requirements.")

\* the plan create_implementation_plan stores (lines 449-478): the primary plan,
\* or the simplified one when the primary plan has no steps; the description key
\* the handler also tests is always present
NeedsSimplified(first) == first.kind # "plan" \/ first.steps = "none"
plan_attempts(pa) ==
    IF NeedsSimplified(create_enhancement_plan(pa)) THEN <<"plan", "simplified">>
    ELSE <<"plan">>
created_plan(pa, sa) ==
    IF NeedsSimplified(create_enhancement_plan(pa)) THEN create_simplified_plan(sa)
    ELSE create_enhancement_plan(pa)

\* faulty variant of create_fallback_implementation_doc: a plan without steps is
\* rendered with an empty list of steps
create_fallback_implementation_doc_bare(plan) ==
    IF plan.steps = "malformed"
    THEN [kind |-> "raises", steps |-> "none", description |-> "none"]
    ELSE [kind |-> "fallback",
          steps |-> IF plan.steps = "none" THEN "none" ELSE "plan_steps",
          description |-> plan.description]
\* create_fallback_implementation_doc: the template with the steps of the plan,
\* or with the three-step skeleton when the plan has none; step.get raises on a
\* step that is not a dict
create_fallback_implementation_doc(plan) ==
    IF plan.steps = "malformed"
    THEN [kind |-> "raises", steps |-> "none", description |-> "none"]
    ELSE [kind |-> "fallback",
          steps |-> IF plan.steps = "none" THEN "skeleton" ELSE "plan_steps",
          description |-> plan.description]

\* generate_implementation_document, and the handler's own fallback (lines
\* 480-495): the text of the service, or the fallback template
generate_implementation_document(plan, da) ==
    IF da = "llm" THEN [kind |-> "llm", steps |-> "llm", description |-> "llm"]
    ELSE create_fallback_implementation_doc(plan)
\* faulty variant of plan_after_evaluation: the plan is created in the run of
\* the evaluation
plan_after_evaluation_same_run(plan) == create_enhancement_plan("ok")
\* the "start" step ends with st.rerun() (lines 340-342): the branch of the
\* "planning" step is not entered in this run and the plan stays as it was
plan_after_evaluation(plan) == plan

\* the "start" step of evaluate_and_plan_projects (lines 220-342)
\*   comparable:    the scores can be ordered (all numbers); else sort raises TypeError
\*   render_raises: building the response raises (e.g. "pros": null), after the
\*                  evaluations were stored
EvaluationStep(msgs, cs) ==
    \E answers \in [1..Len(search_results.items) -> ScoreAnswers],
       sel \in SelectAnswers(Len(search_results.items)),
       comparable \in BOOLEAN, render_raises \in BOOLEAN :
        LET items == search_results.items
            hasLlm == \E i \in 1..Len(items) : answers[i].mode = "ok"
            evals == evaluate_candidates(items, answers, 1, <<>>)
            best_project == select_best_project(evals, sel)
            marked == MarkBest(SortDesc(evals), best_project)
            chosen == marked[FirstBest(marked, 1)]
        IN  /\ comparable \/ (hasLlm /\ Len(items) >= 2)
            /\ render_raises => (hasLlm /\ comparable)
            /\ IF ~comparable
               THEN /\ messages' = add_message(msgs, "assistant:evaluation_error")
                    /\ evaluation_state' = "start"
                    /\ current_stage' = cs
                    /\ outcome' = "start_exc"
                    /\ rerun_pending' = FALSE
                    /\ calls' = <<"inspect", "score", "select">>
                    /\ UNCHANGED <<evaluations, selected_project, select_call, enhancement_plan>>
               ELSE /\ evaluations' = marked
                    /\ select_call' = [evals |-> evals,
                                    mode |-> selection_service(evals, sel).mode,
                                    index |-> selection_service(evals, sel).index,
                                    result |-> best_project]
                    /\ calls' = <<"inspect", "score", "select">>
                    /\ IF render_raises
                       THEN /\ messages' = add_message(msgs, "assistant:evaluation_error")
                            /\ evaluation_state' = "start"
                            /\ current_stage' = cs
                            /\ outcome' = "start_exc"
                            /\ rerun_pending' = FALSE
                            /\ UNCHANGED <<selected_project, enhancement_plan>>
                       ELSE /\ messages' = add_message(msgs, "assistant:evaluation")
                            /\ selected_project' = ProjectOf(chosen, chosen.reason)
                            /\ current_stage' = "enhancement_planning"
                            /\ evaluation_state' = "planning"
                            /\ outcome' = "start_ok"
                            /\ rerun_pending' = TRUE
                            /\ enhancement_plan' = plan_after_evaluation(enhancement_plan)
            /\ UNCHANGED <<project_summary, search_results, idea_rating,
                           idea_reflection, awaiting_clarification, original_idea,
                           plan_file, rate_arg, summarize_arg, search_arg>>

\* the "planning" step: evaluation_state = "done" (line 347), then
\* create_implementation_plan (lines 436-587)
PlanningStep(msgs, cs) ==
    /\ current_stage' = cs
    /\ IF ~Truthy(selected_project)
       THEN /\ messages' = add_message(msgs, "assistant:no_project_selected")
            /\ evaluation_state' = "done"
            /\ outcome' = "plan_noproject"
            /\ calls' = <<>>
            /\ UNCHANGED <<enhancement_plan, plan_file>>
       ELSE \E pa \in PlanAnswers, sa \in PlanAnswers, da \in DocumentAnswers,
               write_ok \in BOOLEAN :
            LET retry == NeedsSimplified(create_enhancement_plan(pa))
                plan == created_plan(pa, sa)
                \* step.get(...) raises AttributeError on an entry that is not a dict:
                \* in the fallback document, and in the response summary (line 538)
                raises == plan.steps = "malformed"
                structured_plan == generate_implementation_document(plan, da)
                written == structured_plan.kind # "raises" /\ write_ok
            IN  /\ (~retry) => sa = "no_client"
                /\ enhancement_plan' = plan
                /\ calls' = plan_attempts(pa) \o <<"render">>
                /\ IF raises
                   THEN /\ messages' = add_message(msgs, "assistant:plan_error")
                        /\ evaluation_state' = "done"
                        /\ outcome' = "plan_exc"
                        /\ plan_file' = (plan_file \/ written)
                   ELSE /\ messages' = add_message(add_message(msgs, "assistant:plan"),
                                                    "assistant:new_project")
                        /\ evaluation_state' = "completed"
                        /\ outcome' = "plan_ok"
                        /\ plan_file' = (plan_file \/ written)
    /\ rerun_pending' = FALSE
    /\ UNCHANGED <<project_summary, search_results, selected_project, idea_rating,
                   idea_reflection, awaiting_clarification, original_idea, evaluations,
                   rate_arg, summarize_arg, search_arg, select_call>>

\* evaluate_and_plan_projects, entered with evaluation_state = es and
\* current_stage = cs
evaluate_and_plan_projects(msgs, es, cs) ==
    IF ~Truthy(search_results) \/ IsErrorMarker(search_results)
    THEN /\ messages' = add_message(msgs, "assistant:no_valid_projects")
         /\ evaluation_state' = es
         /\ current_stage' = cs
         /\ outcome' = "eval_invalid"
         /\ calls' = <<>>
         /\ rerun_pending' = FALSE
         /\ UNCHANGED <<project_summary, search_results, selected_project, enhancement_plan,
                        idea_rating, idea_reflection, awaiting_clarification, original_idea,
                        evaluations, plan_file, rate_arg, summarize_arg, search_arg,
                        select_call>>
    ELSE IF es = "start" THEN EvaluationStep(msgs, cs)
    ELSE IF es = "planning" THEN PlanningStep(msgs, cs)
    ELSE /\ messages' = msgs
         /\ evaluation_state' = es
         /\ current_stage' = cs
         /\ outcome' = "eval_noop"
         /\ calls' = <<>>
         /\ rerun_pending' = FALSE
         /\ UNCHANGED <<project_summary, search_results, selected_project, enhancement_plan,
                        idea_rating, idea_reflection, awaiting_clarification, original_idea,
                        evaluations, plan_file, rate_arg, summarize_arg, search_arg,
                        select_call>>

\* handle_project_selection
handle_project_selection(msgs) ==
    IF ~Truthy(search_results)
    THEN /\ messages' = msgs
         /\ outcome' = "selection_rejected"
         /\ calls' = <<>>
         /\ rerun_pending' = FALSE
         /\ UNCHANGED <<project_summary, search_results, selected_project, enhancement_plan,
                        idea_rating, idea_reflection, awaiting_clarification, original_idea,
                        evaluation_state, evaluations, current_stage, plan_file, rate_arg,
                        summarize_arg, search_arg, select_call>>
    ELSE evaluate_and_plan_projects(msgs, "start", "project_evaluation")

(***************************************************************************)
(* main(): the branches a run takes, in the order the script tests them.   *)
(***************************************************************************)
AutoSearchBranch == Len(messages) > 1 /\ auto_search
ChoiceBranch == Truthy(search_results) /\ IsList(search_results)
                /\ evaluation_state = "github_usage_choice"
EvalBranch == Truthy(search_results)
              /\ evaluation_state \in {"planning", "start", "plan_options"}
\* the run gets as far as the search button and the chat input
ReachesWidgets == ~AutoSearchBranch /\ ~ChoiceBranch /\ ~EvalBranch
\* faulty variant of ButtonVisible: the button is offered whatever was searched
ButtonVisibleAlways == /\ Len(messages) >= 2
                       /\ Truthy(project_summary)
                       /\ evaluation_state # "completed"
ButtonVisible == /\ Len(messages) >= 2
                 /\ Truthy(project_summary)
                 /\ evaluation_state # "completed"
                 /\ (~Truthy(search_results) \/ awaiting_clarification)

\* faulty variant of ChatRoute: a text that follows a search always asks for the
\* project selection
ChatRouteReselects ==
    IF ~Truthy(project_summary) /\ ~awaiting_clarification THEN "initial"
    ELSE IF awaiting_clarification THEN "clarification"
    ELSE IF ~Truthy(search_results) THEN "search"
    ELSE "selection"
\* the handler a submitted text is routed to (lines 172-191)
ChatRoute ==
    IF ~Truthy(project_summary) /\ ~awaiting_clarification THEN "initial"
    ELSE IF awaiting_clarification THEN "clarification"
    ELSE IF ~Truthy(search_results) THEN "search"
    ELSE IF ~Truthy(selected_project) THEN "selection"
    ELSE IF ~Truthy(enhancement_plan) THEN "plan"
    ELSE "none"

Idle(msgs, what) ==
    /\ messages' = msgs
    /\ outcome' = what
    /\ calls' = <<>>
    /\ rerun_pending' = FALSE
    /\ UNCHANGED <<project_summary, search_results, selected_project, enhancement_plan,
                   idea_rating, idea_reflection, awaiting_clarification, original_idea,
                   evaluation_state, evaluations, auto_search, current_stage, plan_file,
                   rate_arg, summarize_arg, search_arg, select_call>>

\* a run without a widget event: after st.rerun(), or a manual rerun of the page
Tick ==
    /\ IF AutoSearchBranch
       THEN /\ auto_search' = FALSE
            /\ handle_github_search(messages)
       ELSE IF ChoiceBranch
       THEN Idle(messages, "choice")
       ELSE IF EvalBranch
       THEN /\ evaluate_and_plan_projects(messages, evaluation_state, current_stage)
            /\ UNCHANGED auto_search
       ELSE Idle(messages, "idle")
    /\ Len(messages') <= MaxMessages
    /\ UNCHANGED <<texts, skip_taken, query_run, service_run>>

\* the "Start New Project" button of the sidebar
ClickReset ==
    /\ ~rerun_pending
    /\ reset_session_state
    /\ rerun_pending' = TRUE
    /\ outcome' = "reset"
    /\ rate_arg' = <<>>
    /\ summarize_arg' = <<>>
    /\ search_arg' = NoQuery
    /\ select_call' = NoSelect
    /\ texts' = <<>>
    /\ skip_taken' = FALSE
    /\ UNCHANGED <<query_run, service_run>>

\* the "Search GitHub Projects Now" button
ClickSearchButton ==
    /\ ~rerun_pending
    /\ ReachesWidgets
    /\ ButtonVisible
    /\ skip_clarification(project_summary)
    /\ Len(messages') <= MaxMessages
    /\ skip_taken' = (skip_taken \/ (awaiting_clarification /\ idea_rating < 8))
    /\ UNCHANGED <<texts, query_run, service_run>>

\* a text submitted through the chat input
SubmitText(prompt) ==
    /\ ~rerun_pending
    /\ ReachesWidgets
    /\ LET msgs == add_message(messages, "user")
       IN  CASE ChatRoute = "initial" -> handle_initial_message(prompt, msgs)
             [] ChatRoute = "clarification" ->
                    /\ Len(original_idea) + 1 + Len(prompt) <= MaxIdeaLen
                    /\ handle_clarification(prompt, msgs)
             [] ChatRoute = "search" ->
                    /\ handle_github_search(msgs)
                    /\ UNCHANGED auto_search
             [] ChatRoute = "selection" ->
                    /\ handle_project_selection(msgs)
                    /\ UNCHANGED auto_search
             [] ChatRoute = "plan" ->
                    /\ evaluate_and_plan_projects(msgs, evaluation_state, current_stage)
                    /\ UNCHANGED auto_search
             [] OTHER -> Idle(msgs, "text_ignored")
    /\ Len(messages') <= MaxMessages
    /\ texts' = IF ChatRoute = "initial" THEN <<prompt>>
                ELSE IF ChatRoute = "clarification" THEN Append(texts, prompt)
                ELSE texts
    /\ UNCHANGED <<skip_taken, query_run, service_run>>

Next ==
    \/ Tick
    \/ ClickReset
    \/ ClickSearchButton
    \/ \E prompt \in Prompts : SubmitText(prompt)

Spec == Init /\ [][Next]_vars

\* a session without further input: the first message is submitted, after it
\* only runs without a widget event take place, and they keep taking place
FirstMessage == \E prompt \in Prompts : messages = <<>> /\ SubmitText(prompt)

NextUnattended ==
    \/ FirstMessage
    \/ Tick

SpecUnattended == Init /\ [][NextUnattended]_vars /\ WF_vars(Tick)

(***************************************************************************)
(* The ranking pipeline on longer candidate lists: the session right after *)
(* a search of a clear idea found the candidates, followed by the run     *)
(* that evaluates them.                                                    *)
(***************************************************************************)
RankCandidateLists == UNION {[1..n -> [url : Urls]] : n \in 1..MaxRankCandidates}

InitRank ==
    /\ messages = <<"user", "assistant:initial", "assistant:search_found">>
    /\ project_summary = process_project_summary(<<"a">>, "str")
    /\ \E l \in RankCandidateLists :
           search_results = search_github_projects(
                                search_query(<<"a">>, process_project_summary(<<"a">>, "str")),
                                [kind |-> "found", items |-> l])
    /\ selected_project = NoProject
    /\ enhancement_plan = NoPlan
    /\ idea_rating = 8
    /\ idea_reflection = [kind |-> "llm", of |-> <<"a">>]
    /\ awaiting_clarification = FALSE
    /\ original_idea = <<"a">>
    /\ evaluation_state = "start"
    /\ evaluations = <<>>
    /\ auto_search = FALSE
    /\ current_stage = "not_started"
    /\ plan_file = FALSE
    /\ rerun_pending = TRUE
    /\ outcome = "search_ok"
    /\ calls = <<"search">>
    /\ rate_arg = <<"a">>
    /\ summarize_arg = <<"a">>
    /\ search_arg = search_query(<<"a">>, process_project_summary(<<"a">>, "str"))
    /\ select_call = NoSelect
    /\ texts = << <<"a">> >>
    /\ skip_taken = FALSE
    /\ query_run = NoQueryRun
    /\ service_run = NoServiceRun

\* the first run of the evaluation step on each list
NextRank ==
    /\ evaluation_state = "start"
    /\ outcome = "search_ok"
    /\ Tick

SpecRank == InitRank /\ [][NextRank]_vars

(***************************************************************************)
(* The query assembly on long inputs.  A string is modelled by its length, *)
(* tech_stack by the lengths of its comma-separated terms.                 *)
(***************************************************************************)
PurposeBudget == 400
PlatformBudget == 450
TechBudget == 500
MaxTechTerms == 3
MaxQueryLength == 500
\* len(" GitHub repository")
SuffixLen == 18

InputLens == {0, 1, 100, 399, MaxInputLen}
TermLens == {0, 130}
TechStacks == UNION {[1..n -> TermLens] : n \in 0..MaxTerms} \cup {<<399>>}

RECURSIVE SumLens(_)
SumLens(terms) == IF terms = <<>> THEN 0 ELSE Head(terms) + SumLens(Tail(terms))
\* len(sep.join(terms)) for a separator of length sep_len
JoinedLen(terms, sep_len) ==
    IF terms = <<>> THEN 0 ELSE SumLens(terms) + sep_len * (Len(terms) - 1)
\* tech_stack.split(',')[:3]
FirstTerms(terms) ==
    SubSeq(terms, 1, IF Len(terms) > MaxTechTerms THEN MaxTechTerms ELSE Len(terms))

\* the length of search_query after the enrichment both handlers perform
\* (handlers.py lines 141-159 and 381-400)
assemble_query(idea_len, purpose_len, purpose_is_idea, platform_len, tech_terms) ==
    LET tech_len == JoinedLen(tech_terms, 1)
        q0 == idea_len
        q1 == IF purpose_len > 0 /\ ~purpose_is_idea /\ q0 + purpose_len < PurposeBudget
              THEN q0 + 1 + purpose_len ELSE q0
        q2 == IF platform_len > 0 /\ q1 + platform_len < PlatformBudget
              THEN q1 + 5 + platform_len ELSE q1
        q3 == IF tech_len > 0 /\ q2 + tech_len < TechBudget
              THEN q2 + 7 + JoinedLen(FirstTerms(tech_terms), 2) ELSE q2
    IN  q3

\* query[:max_query_length] if len(query) > max_query_length else query
truncate_query(query_len) ==
    IF query_len > MaxQueryLength THEN MaxQueryLength ELSE query_len

InitQuery ==
    /\ init_session_state
    /\ plan_file = FALSE
    /\ rerun_pending = FALSE
    /\ outcome = "init"
    /\ calls = <<>>
    /\ rate_arg = <<>>
    /\ summarize_arg = <<>>
    /\ search_arg = NoQuery
    /\ select_call = NoSelect
    /\ texts = <<>>
    /\ skip_taken = FALSE
    /\ service_run = NoServiceRun
    /\ \E il \in InputLens \ {0}, pl \in InputLens, same \in BOOLEAN,
          fl \in InputLens, tt \in TechStacks :
           /\ same => pl = il
           /\ query_run = [NoQueryRun EXCEPT !.phase = "input", !.idea_len = il,
                                             !.purpose_len = pl, !.purpose_is_idea = same,
                                             !.platform_len = fl, !.tech_terms = tt]

\* the query a handler assembles from the held idea and summary, and the query
\* search_github_projects submits for it
AssembleAndSubmit(handler) ==
    /\ query_run.phase = "input"
    /\ LET q == assemble_query(query_run.idea_len, query_run.purpose_len,
                               query_run.purpose_is_idea, query_run.platform_len,
                               query_run.tech_terms)
       IN  query_run' = [query_run EXCEPT !.phase = "submitted", !.handler = handler,
                                          !.assembled_len = q,
                                          !.truncated_len = truncate_query(q),
                                          !.submitted_len = truncate_query(q) + SuffixLen]
    /\ UNCHANGED <<messages, project_summary, search_results, selected_project,
                   enhancement_plan, idea_rating, idea_reflection, awaiting_clarification,
                   original_idea, evaluation_state, evaluations, auto_search,
                   current_stage, plan_file, rerun_pending, outcome, calls, rate_arg,
                   summarize_arg, search_arg, select_call, texts, skip_taken,
                   service_run>>

SearchAssembles == AssembleAndSubmit("handle_github_search")
SkipAssembles == AssembleAndSubmit("skip_clarification")

NextQuery == SearchAssembles \/ SkipAssembles

SpecQuery == InitQuery /\ [][NextQuery]_vars

(***************************************************************************)
(* The service functions on their own: the function is applied to an       *)
(* answer of its provider drawn from the set of the answers.               *)
(***************************************************************************)
InitService(inputs) ==
    /\ init_session_state
    /\ plan_file = FALSE
    /\ rerun_pending = FALSE
    /\ outcome = "init"
    /\ calls = <<>>
    /\ rate_arg = <<>>
    /\ summarize_arg = <<>>
    /\ search_arg = NoQuery
    /\ select_call = NoSelect
    /\ texts = <<>>
    /\ skip_taken = FALSE
    /\ query_run = NoQueryRun
    /\ service_run \in inputs

ServiceFrame ==
    UNCHANGED <<messages, project_summary, search_results, selected_project,
                enhancement_plan, idea_rating, idea_reflection, awaiting_clarification,
                original_idea, evaluation_state, evaluations, auto_search,
                current_stage, plan_file, rerun_pending, outcome, calls, rate_arg,
                summarize_arg, search_arg, select_call, texts, skip_taken, query_run>>

\* the answers of the search provider: up to MaxProviderResults results of the
\* repository host or of another host
ProviderResults == UNION {[1..n -> [url : {"u1", "other"}]] : n \in 0..MaxProviderResults}
ProviderAnswers == {[kind |-> "no_key", items |-> <<>>], [kind |-> "failed", items |-> <<>>]}
                   \cup {[kind |-> k, items |-> l] : k \in {"found", "retried"},
                                                    l \in ProviderResults}

InitSearch ==
    InitService({[fn |-> "search_github_projects", phase |-> "called", answer |-> a,
                  result |-> NoResults] : a \in ProviderAnswers})

SearchReturns ==
    /\ service_run.fn = "search_github_projects"
    /\ service_run.phase = "called"
    /\ service_run' = [service_run EXCEPT
                           !.phase = "returned",
                           !.result = search_github_projects(NoQuery, service_run.answer)]
    /\ ServiceFrame

SpecSearch == InitSearch /\ [][SearchReturns]_vars

\* plan creation and document rendering of create_implementation_plan, for the
\* answers pa, sa and da of the primary, the simplified and the document service
InitPlan ==
    InitService({[fn |-> "create_implementation_plan", phase |-> "called",
                  pa |-> pa, sa |-> sa, da |-> da, attempts |-> <<>>,
                  plan |-> NoPlan, document |-> NoDocument] :
                     pa \in PlanAnswers, sa \in PlanAnswers, da \in DocumentAnswers})

PlanReturns ==
    /\ service_run.fn = "create_implementation_plan"
    /\ service_run.phase = "called"
    /\ LET plan == created_plan(service_run.pa, service_run.sa)
       IN  service_run' = [service_run EXCEPT
                              !.phase = "returned",
                              !.attempts = plan_attempts(service_run.pa),
                              !.plan = plan,
                              !.document = generate_implementation_document(plan, service_run.da)]
    /\ ServiceFrame

SpecPlan == InitPlan /\ [][PlanReturns]_vars

\* repository inspection, extract_github_content: the answers of the content
\* provider.  An answer that carries content is given by what the regular
\* expressions of the function find in it: the number after which "stars" and
\* "forks" follow (<<>> when there is no match), the language names and the
\* file names.
FailingAnswers == {"transport", "http_error", "not_json", "entry_without_content",
                   "content_not_text"}
EmptyAnswers == {"no_results_key", "empty_results"}
CountMatches == {<<>>, <<0>>, <<12>>}
ContentAnswers ==
    [kind : {"content"}, stars_match : CountMatches, forks_match : CountMatches,
     languages : {<<>>, <<"Python">>}, files : {<<>>, <<"app.py">>}]
ExtractAnswers ==
    {[kind |-> k] : k \in {"no_key"} \cup FailingAnswers \cup EmptyAnswers}
        \cup ContentAnswers

\* the record returned on every path without content; raw_content tells the
\* paths apart
default_repo_data(raw_content) ==
    [kind |-> "returned", raw_content |-> raw_content, extracted_content |-> FALSE,
     stars |-> 0, forks |-> 0, languages |-> <<>>, readme |-> "No README available",
     files |-> <<>>]

\* the body of the try block: the request, the decoding of the answer and the
\* parsing of the first result
extract_request(answer) ==
    IF answer.kind \in FailingAnswers THEN [kind |-> "raises"]
    ELSE IF answer.kind \in EmptyAnswers THEN default_repo_data("No content available")
    ELSE [kind |-> "returned", raw_content |-> "repo_content", extracted_content |-> TRUE,
          stars |-> IF answer.stars_match = <<>> THEN 0 ELSE answer.stars_match[1],
          forks |-> IF answer.forks_match = <<>> THEN 0 ELSE answer.forks_match[1],
          languages |-> answer.languages, readme |-> "No README detected",
          files |-> answer.files]

extract_github_content_uncaught(github_url, answer) ==
    IF answer.kind = "no_key" THEN default_repo_data("No content available")
    ELSE extract_request(answer)

extract_github_content(github_url, answer) ==
    IF answer.kind = "no_key" THEN default_repo_data("No content available")
    ELSE LET repo_data == extract_request(answer)
         IN  IF repo_data.kind = "raises"
             THEN default_repo_data("Error extracting content")
             ELSE repo_data

InitExtract ==
    InitService({[fn |-> "extract_github_content", phase |-> "called", github_url |-> u,
                  answer |-> a, result |-> [kind |-> "none"]] :
                     u \in Urls, a \in ExtractAnswers})

ExtractReturns ==
    /\ service_run.fn = "extract_github_content"
    /\ service_run.phase = "called"
    /\ service_run' = [service_run EXCEPT
                           !.phase = "returned",
                           !.result = extract_github_content(service_run.github_url,
                                                             service_run.answer)]
    /\ ServiceFrame

SpecExtract == InitExtract /\ [][ExtractReturns]_vars

\* the calls search_github_projects makes to the search provider.  The query is
\* given by the lengths of its words, which single spaces separate.
MaxSimplifiedWords == 10
WordLens == {1, 60}
QueryWords == UNION {[1..n -> WordLens] : n \in 0..MaxQueryWords}

\* query[:budget].split(): the words of the first budget characters; the last
\* word may be cut, a space at the end is dropped
RECURSIVE truncated_words(_, _)
truncated_words(words, budget) ==
    IF words = <<>> THEN <<>>
    ELSE IF Head(words) >= budget THEN <<budget>>
    ELSE IF budget - Head(words) - 1 <= 0 THEN <<Head(words)>>
    ELSE <<Head(words)>> \o truncated_words(Tail(words), budget - Head(words) - 1)

\* faulty variant of provider_calls: the retry repeats the truncated query
provider_calls_plain_retry(words, first) ==
    LET truncated_query == truncated_words(words, MaxQueryLength)
        call == [query |-> truncated_query, suffix |-> "GitHub repository",
                 search_depth |-> "advanced"]
    IN  IF first = "no_key" THEN <<>>
        ELSE IF first = "answers" THEN <<call>>
        ELSE <<call, [call EXCEPT !.search_depth = "basic"]>>
\* the calls of client.search in their order, for a first call that answers or
\* raises; without a key the client is not built
provider_calls(words, first) ==
    LET truncated_query == truncated_words(words, MaxQueryLength)
        simplified_query ==
            SubSeq(truncated_query, 1,
                   IF Len(truncated_query) > MaxSimplifiedWords
                   THEN MaxSimplifiedWords ELSE Len(truncated_query))
    IN  IF first = "no_key" THEN <<>>
        ELSE IF first = "answers"
        THEN <<[query |-> truncated_query, suffix |-> "GitHub repository",
                search_depth |-> "advanced"]>>
        ELSE <<[query |-> truncated_query, suffix |-> "GitHub repository",
                search_depth |-> "advanced"],
               [query |-> simplified_query, suffix |-> "GitHub repository",
                search_depth |-> "basic"]>>

\* what the two calls amount to for the rest of the function
provider_answer(first, second, items) ==
    IF first = "no_key" THEN [kind |-> "no_key", items |-> <<>>]
    ELSE IF first = "answers" THEN [kind |-> "found", items |-> items]
    ELSE IF second = "answers" THEN [kind |-> "retried", items |-> items]
    ELSE [kind |-> "failed", items |-> <<>>]

InitProvider ==
    InitService({[fn |-> "provider_calls", phase |-> "called", words |-> w,
                  first |-> f, second |-> g, provider_calls |-> <<>>,
                  result |-> NoResults] :
                     w \in QueryWords, f \in {"no_key", "answers", "raises"},
                     g \in {"answers", "raises"}})

ProviderReturns ==
    /\ service_run.fn = "provider_calls"
    /\ service_run.phase = "called"
    /\ service_run' =
           [service_run EXCEPT
                !.phase = "returned",
                !.provider_calls = provider_calls(service_run.words, service_run.first),
                !.result = search_github_projects(
                               NoQuery,
                               provider_answer(service_run.first, service_run.second,
                                               <<[url |-> "u1"]>>))]
    /\ ServiceFrame

SpecProvider == InitProvider /\ [][ProviderReturns]_vars

\* the two copies of create_fallback_implementation_doc, with the parts of the
\* template that come from the summary and from the selected project.  A
\* document is given by what each section of the template is filled with.
\* the copy of api.py, which generate_implementation_document calls
fallback_document_api(project_summary_arg, selected_project_arg, plan) ==
    LET body == create_fallback_implementation_doc(plan)
    IN  IF body.kind = "raises"
        THEN [kind |-> "raises"]
        ELSE [kind |-> "fallback",
              heading |-> IF "project_purpose" \in SummaryKeys(project_summary_arg)
                          THEN "project_purpose" ELSE "Mini-Project",
              overview |-> [k \in CanonicalKeys |->
                               IF k \in SummaryKeys(project_summary_arg)
                               THEN k ELSE "Not specified"],
              base_project |-> selected_project_arg.url,
              strategy |-> body.description,
              steps |-> body.steps]

\* faulty variant of fallback_document_utils: a plan without steps gets an empty
\* section of steps, and a summary without purpose no heading
fallback_document_utils_plain(project_summary_arg, selected_project_arg, plan) ==
    IF plan.steps = "malformed"
    THEN [kind |-> "raises"]
    ELSE [kind |-> "fallback",
          heading |-> IF "project_purpose" \in SummaryKeys(project_summary_arg)
                      THEN "project_purpose" ELSE "Not specified",
          overview |-> [k \in CanonicalKeys |->
                           IF k \in SummaryKeys(project_summary_arg)
                           THEN k ELSE "Not specified"],
          base_project |-> selected_project_arg.url,
          strategy |-> plan.description,
          steps |-> IF plan.steps = "none" THEN "none" ELSE "plan_steps"]
\* the copy of utils.py, which create_implementation_plan calls when
\* generate_implementation_document raised
fallback_document_utils(project_summary_arg, selected_project_arg, plan) ==
    IF plan.steps = "malformed"
    THEN [kind |-> "raises"]
    ELSE [kind |-> "fallback",
          heading |-> IF "project_purpose" \in SummaryKeys(project_summary_arg)
                      THEN "project_purpose" ELSE "Mini-Project",
          overview |-> [k \in CanonicalKeys |->
                           IF k \in SummaryKeys(project_summary_arg)
                           THEN k ELSE "Not specified"],
          base_project |-> selected_project_arg.url,
          strategy |-> plan.description,
          steps |-> IF plan.steps = "none" THEN "skeleton" ELSE "plan_steps"]

InitFallback ==
    InitService({[fn |-> "create_fallback_implementation_doc", phase |-> "called",
                  summary |-> process_project_summary(<<"a">>, a),
                  project |-> [kind |-> "project", pos |-> 1, url |-> u,
                               reason |-> r, marked |-> TRUE],
                  plan |-> created_plan(pa, sa),
                  api_document |-> [kind |-> "none"],
                  utils_document |-> [kind |-> "none"]] :
                     a \in SummaryAnswers, u \in Urls, r \in {"only_project", "llm"},
                     pa \in PlanAnswers, sa \in PlanAnswers})

FallbackReturns ==
    /\ service_run.fn = "create_fallback_implementation_doc"
    /\ service_run.phase = "called"
    /\ service_run' =
           [service_run EXCEPT
                !.phase = "returned",
                !.api_document = fallback_document_api(service_run.summary,
                                                       service_run.project,
                                                       service_run.plan),
                !.utils_document = fallback_document_utils(service_run.summary,
                                                           service_run.project,
                                                           service_run.plan)]
    /\ ServiceFrame

SpecFallback == InitFallback /\ [][FallbackReturns]_vars

(***************************************************************************)
(* Properties.                                                             *)
(***************************************************************************)

\* C1: while search_results holds the error marker of a failed search, no run
\* moves evaluation_state away from "not_started".
C1_ErrorKeepsNotStarted ==
    IsErrorMarker(search_results) => evaluation_state = "not_started"

\* a run with a text or with the search button would call the repository search
SearchRetryAvailable ==
    \/ AutoSearchBranch
    \/ ReachesWidgets /\ (ButtonVisible \/ ChatRoute = "search")

\* C2: in every state whose search_results is an error marker, submitting a text
\* or pressing the search button invokes the repository search again.
C2_ErrorIsRetryable ==
    IsErrorMarker(search_results) => SearchRetryAvailable

\* C3: a step of evaluate_and_plan_projects that ends in an exception leaves
\* evaluation_state at the stage the step was entered with.
C3_FailedStepKeepsStage ==
    /\ outcome = "start_exc" => evaluation_state = "start"
    /\ outcome = "plan_exc" => evaluation_state = "planning"

\* C4: while search_results is unset or an error marker, nothing downstream
\* exists: evaluations is empty, selected_project and enhancement_plan are unset.
C4_NoDownstreamWithoutResults ==
    ~IsList(search_results) =>
        /\ evaluations = <<>>
        /\ ~Truthy(selected_project)
        /\ ~Truthy(enhancement_plan)

\* the evaluation was asked for on an error marker, and refused
C4_Witness ==
    IsErrorMarker(search_results) /\ outcome = "eval_invalid"

\* C5: after the evaluation step exactly one stored evaluation is the best match.
C5_ExactlyOneBestMatch ==
    evaluations # <<>> =>
        Cardinality({i \in 1..Len(evaluations) : evaluations[i].is_best_match}) = 1

\* C6: the stored evaluations are ordered by score, highest first, and
\* evaluations of equal score are in the order of their candidates.
C6_SortedDescendingStable ==
    \A i, j \in 1..Len(evaluations) :
        i < j => /\ evaluations[i].suitability_score >= evaluations[j].suitability_score
                 /\ evaluations[i].suitability_score = evaluations[j].suitability_score
                        => evaluations[i].pos < evaluations[j].pos

\* the last candidate was moved in front of two candidates of equal score
C6_Witness ==
    /\ outcome = "start_ok"
    /\ Len(evaluations) = 3
    /\ evaluations[1].pos = 3
    /\ evaluations[2].suitability_score = evaluations[3].suitability_score

\* the selection service was unavailable, raised, or gave no usable index
FallbackTaken ==
    /\ Len(select_call.evals) >= 2
    /\ \/ select_call.mode \in {"no_client", "raises", "unparsable"}
       \/ /\ select_call.mode = "index"
          /\ (select_call.index < 1 \/ select_call.index > Len(select_call.evals))

IsFirstMaximum(evals, p) ==
    /\ p \in 1..Len(evals)
    /\ \A j \in 1..Len(evals) : evals[j].suitability_score <= evals[p].suitability_score
    /\ \A j \in 1..(p - 1) : evals[j].suitability_score < evals[p].suitability_score

\* C7: on the fallback, select_best_project returns the project of the earliest
\* evaluation of maximal score.
C7_FallbackPicksFirstMaximum ==
    FallbackTaken =>
        /\ select_call.result.kind = "project"
        /\ IsFirstMaximum(select_call.evals, select_call.result.pos)
        /\ select_call.result.url = select_call.evals[select_call.result.pos].url

\* the service raised, and the second of three evaluations is the first of two maxima
C7_Witness ==
    /\ FallbackTaken
    /\ select_call.mode = "raises"
    /\ Len(select_call.evals) = 3
    /\ select_call.result.pos = 2
    /\ select_call.evals[2].suitability_score = select_call.evals[3].suitability_score

\* C8: after a rating r was processed, awaiting_clarification is false exactly
\* when r >= 8.
C8_ThresholdDecidesAwaiting ==
    outcome \in {"initial", "clarification"} =>
        (~awaiting_clarification <=> idea_rating >= 8)

\* a clarification rated 8 ended the wait
C8_Witness ==
    outcome = "clarification" /\ idea_rating = 8 /\ ~awaiting_clarification

RECURSIVE Concatenated(_)
Concatenated(ts) ==
    IF ts = <<>> THEN <<>> ELSE Head(ts) \o Concatenated(Tail(ts))
RECURSIVE JoinedBySpaces(_)
JoinedBySpaces(ts) ==
    IF ts = <<>> THEN <<>>
    ELSE IF Len(ts) = 1 THEN Head(ts)
    ELSE Head(ts) \o <<" ">> \o JoinedBySpaces(Tail(ts))

\* the session after a round of the clarification loop whose combined text is idea
AfterRound(idea) ==
    /\ original_idea = idea
    /\ rate_arg = idea
    /\ summarize_arg = idea
    /\ idea_rating < 8 => awaiting_clarification
    /\ idea_rating >= 8 => (~awaiting_clarification /\ auto_search)

\* C9 as stated: after each round original_idea is the plain concatenation of
\* the texts so far, it is the text rated and summarised, and the session awaits
\* clarification exactly while the rating is below 8.
C9_PlainConcatenation ==
    outcome \in {"initial", "clarification"} => AfterRound(Concatenated(texts))

\* C9 amended: the texts are joined by single spaces.
C9_JoinedBySpaces ==
    outcome \in {"initial", "clarification"} => AfterRound(JoinedBySpaces(texts))

\* the second of two different texts made the idea clear
C9_Witness ==
    /\ outcome = "clarification"
    /\ Len(texts) = 2
    /\ texts[1] # texts[2]
    /\ idea_rating >= 8
    /\ auto_search

\* C10: once the search button was pressed while awaiting clarification with a
\* rating below 8, the run searched with the held summary and idea without
\* rating again, and awaiting_clarification stays false until a reset.
C10_SkipSearchesAndNeverAwaits ==
    skip_taken =>
        /\ ~awaiting_clarification
        /\ outcome \in {"skip_ok", "skip_err", "skip_failed"} =>
               /\ calls = <<"search">>
               /\ search_arg = search_query(original_idea, project_summary)

\* C11: the search query a handler assembles from original_idea, project_purpose,
\* platform and tech_stack, and the query submitted for it, are at most 500 long.
C11_QueryWithinBudget ==
    query_run.phase = "submitted" =>
        /\ query_run.assembled_len <= MaxQueryLength
        /\ query_run.submitted_len <= MaxQueryLength

\* C12: when the rating service is unavailable or its call fails,
\* evaluate_idea_clarity returns the rating 5.
C12_NeutralDefaultOnFailure ==
    (outcome = "initial" /\ idea_reflection.kind \in {"busy", "apology"}) =>
        idea_rating = 5

\* C13: a project_summary that is set holds the four keys project_purpose,
\* platform, tech_stack and key_features.
C13_SummaryHasFourKeys ==
    Truthy(project_summary) => SummaryKeys(project_summary) = CanonicalKeys

\* C14: after a reset every session field has the value init_session_state gives
\* a fresh session, and the cleaning of the plan file and the step directory was
\* called.
C14_ResetRestoresDefaults ==
    outcome = "reset" =>
        /\ init_session_state
        /\ calls = <<"clean_project_files">>

\* the reset of a session that had written its plan, whose file could not be removed
C14_Witness ==
    outcome = "reset" /\ plan_file /\ init_session_state

\* C15: once evaluation_state is "completed", a run that is not the reset leaves
\* evaluation_state, search_results, evaluations, selected_project and
\* enhancement_plan as they are.
C15_CompletedIsTerminal ==
    [][(evaluation_state = "completed" /\ outcome' # "reset") =>
           UNCHANGED <<evaluation_state, search_results, evaluations,
                       selected_project, enhancement_plan>>]_vars

\* a text was submitted to the completed session
C15_Witness ==
    evaluation_state = "completed" /\ outcome = "text_ignored"

\* C16: when a run has stored a list of candidates in search_results,
\* evaluation_state is "start" and a rerun is pending whose run is the
\* evaluation step.
C16_FoundStartsEvaluation ==
    outcome \in {"search_ok", "skip_ok"} =>
        /\ IsList(search_results)
        /\ evaluation_state = "start"
        /\ rerun_pending
        /\ ~AutoSearchBranch /\ EvalBranch

\* an idea was just rated clear: the last run was an idea evaluation of rating >= 8
RatedClear == outcome \in {"initial", "clarification"} /\ idea_rating >= 8

\* C17: after an idea evaluation of rating >= 8 the auto-advance flag is set and
\* a rerun is pending, and the run that follows calls the repository search.
C17_ClearIdeaAutoSearches ==
    [][RatedClear => /\ auto_search
                     /\ rerun_pending
                     /\ calls' = <<"search">>]_vars

\* C18: awaiting_clarification and auto_search are never both true.
C18_AwaitingExcludesAutoSearch ==
    ~(awaiting_clarification /\ auto_search)

\* a clarification made the idea clear: the flag is set and the wait has ended
C18_Witness ==
    outcome = "clarification" /\ auto_search /\ ~awaiting_clarification

\* C19: a run that was refused for want of usable search results or of a
\* selected project changes no session field but messages.
C19_RefusalChangesOnlyMessages ==
    [][outcome' \in {"selection_rejected", "eval_invalid", "plan_noproject"} =>
           UNCHANGED <<project_summary, search_results, selected_project,
                       enhancement_plan, idea_rating, idea_reflection,
                       awaiting_clarification, original_idea, evaluation_state,
                       evaluations, auto_search, current_stage>>]_vars

\* C20: for a single evaluation select_best_project returns the project of that
\* evaluation with the reason "only project found", and the selection service is
\* not called.
C20_SingleEvaluationIsChosen ==
    Len(select_call.evals) = 1 =>
        /\ select_call.result = ProjectOf(select_call.evals[1], "only_project")
        /\ select_call.mode = "not_called"

\* the only candidate of a search was evaluated and became the selected project
C20_Witness ==
    /\ outcome = "start_ok"
    /\ Len(select_call.evals) = 1
    /\ Len(evaluations) = 1
    /\ selected_project.reason = "only_project"

\* C21: search_github_projects returns a list of one to five candidates or an
\* error marker; an answer without a result of the repository host gives the
\* error "no relevant results", a failed transport a different error.
C21_ListOrErrorMarker ==
    (service_run.fn = "search_github_projects" /\ service_run.phase = "returned") =>
        LET answer == service_run.answer
            result == service_run.result
        IN  /\ \/ IsList(result) /\ Len(result.items) \in 1..5
               \/ IsErrorMarker(result) /\ result.items = <<>>
            /\ IsList(result) => \A i \in 1..Len(result.items) : result.items[i].url # "other"
            /\ (answer.kind \in {"found", "retried"}
                  /\ \A i \in 1..Len(answer.items) : answer.items[i].url = "other")
                   => (IsErrorMarker(result) /\ result.err = "no_relevant")
            /\ answer.kind = "failed" => (IsErrorMarker(result) /\ result.err # "no_relevant")

\* the provider answered with results, none of them of the repository host
C21_Witness ==
    /\ service_run.fn = "search_github_projects"
    /\ service_run.phase = "returned"
    /\ Len(service_run.answer.items) >= 2
    /\ service_run.result.err = "no_relevant"

PlanReturned ==
    service_run.fn = "create_implementation_plan" /\ service_run.phase = "returned"
\* the generator could not produce a plan: no client, or the call raised
GenerationFailed(answer) == answer \in {"no_client", "error"}
GenericDescriptions ==
    {"Plan to adapt the GitHub project to meet requirements.",
     "Adapt the GitHub project to meet the requirements."}

\* C22: the primary generator is tried once; the simplified generator is tried,
\* once, exactly when the primary call failed or its result has no non-empty
\* description or no non-empty list of steps; when that fails too the stored
\* plan has no steps and a generic description.
C22_RetryOnInvalidPlan ==
    PlanReturned =>
        LET needs == \/ GenerationFailed(service_run.pa)
                     \/ service_run.pa \in {"no_steps", "no_desc", "empty_desc"}
        IN  /\ service_run.attempts =
                   (IF needs THEN <<"plan", "simplified">> ELSE <<"plan">>)
            /\ (GenerationFailed(service_run.pa) /\ GenerationFailed(service_run.sa)) =>
                   /\ service_run.plan.steps = "none"
                   /\ service_run.plan.description \in GenericDescriptions

\* C23 as stated: when the primary and the simplified generation fail, the plan
\* has no steps and the rendered document is the fallback template with the
\* three-step skeleton.
C23_FallbackSkeleton ==
    (PlanReturned /\ GenerationFailed(service_run.pa) /\ GenerationFailed(service_run.sa)) =>
        /\ service_run.plan.steps = "none"
        /\ service_run.document.kind = "fallback"
        /\ service_run.document.steps = "skeleton"

\* C23 amended: the document is the fallback template with the skeleton when the
\* document service is unavailable or fails as well.
C23_FallbackSkeletonWithoutService ==
    (PlanReturned /\ GenerationFailed(service_run.pa) /\ GenerationFailed(service_run.sa)) =>
        /\ service_run.plan.steps = "none"
        /\ service_run.da # "llm" =>
               /\ service_run.document.kind = "fallback"
               /\ service_run.document.steps = "skeleton"

\* both generators raised and the document service raised too
C23_Witness ==
    /\ PlanReturned
    /\ service_run.pa = "error" /\ service_run.sa = "error" /\ service_run.da = "error"
    /\ service_run.document.steps = "skeleton"

ExtractReturned ==
    service_run.fn = "extract_github_content" /\ service_run.phase = "returned"

\* C25: extract_github_content never raises to its caller: without
\* credentials, on a transport failure, on a non-2xx answer, on an answer with
\* no results and on a malformed result entry it returns a record with
\* extracted_content false, stars 0, forks 0 and empty languages and files.
C25_ExtractNeverRaises ==
    ExtractReturned =>
        /\ service_run.result.kind = "returned"
        /\ service_run.answer.kind # "content" =>
               /\ service_run.result.extracted_content = FALSE
               /\ service_run.result.stars = 0
               /\ service_run.result.forks = 0
               /\ service_run.result.languages = <<>>
               /\ service_run.result.files = <<>>

C25_Witness ==
    /\ ExtractReturned
    /\ service_run.answer.kind = "entry_without_content"
    /\ service_run.result.raw_content = "Error extracting content"
    /\ service_run.result.extracted_content = FALSE

IsPrefixOf(before, after) ==
    Len(before) <= Len(after) /\ SubSeq(after, 1, Len(before)) = before

\* C26: between resets messages is append-only: every run other than a reset
\* leaves the existing sequence of messages as an unchanged prefix of the new
\* sequence.
C26_MessagesAppendOnly ==
    [][outcome' # "reset" => IsPrefixOf(messages, messages')]_vars

C26_Witness ==
    /\ outcome # "reset"
    /\ Len(messages) >= 4
    /\ messages[1] = "user"
    /\ messages[Len(messages)] # "user"

\* C27: in every state in which project_summary is set and the application
\* waits for the user, the run offers the search button (the skip-clarification
\* operation), and a run that invoked skip_clarification ran the repository
\* search, whatever idea_rating is.
C27_SkipAlwaysAvailable ==
    /\ (Truthy(project_summary) /\ ~rerun_pending) =>
           (ReachesWidgets /\ ButtonVisible)
    /\ outcome \in {"skip_ok", "skip_err", "skip_failed"} => calls = <<"search">>

\* C28: after the "start" step of the evaluation, selected_project is the
\* project that select_best_project returned, the project of the chosen
\* candidate, and carries its reason.
C28_SelectedIsReturnedProject ==
    outcome = "start_ok" =>
        /\ selected_project.pos = select_call.result.pos
        /\ selected_project.url = select_call.result.url
        /\ selected_project.reason = select_call.result.reason

IndexInRange ==
    /\ Len(select_call.evals) >= 2
    /\ select_call.mode = "index"
    /\ select_call.index \in 1..Len(select_call.evals)

\* C29: with two or more evaluations, when the selection service returns an
\* index k with 1 <= k <= count, select_best_project returns the project of the
\* k-th evaluation in the order the candidates were evaluated, even if another
\* evaluation has a higher suitability_score.
C29_IndexPicksKthEvaluated ==
    IndexInRange =>
        /\ select_call.result.kind = "project"
        /\ select_call.result.pos = select_call.index
        /\ select_call.result.url = search_results.items[select_call.index].url

C29_Witness ==
    /\ IndexInRange
    /\ select_call.index = 2
    /\ select_call.result.pos = 2
    /\ \E j \in 1..Len(select_call.evals) :
           select_call.evals[j].suitability_score
               > select_call.evals[2].suitability_score

\* C30: in the "start" step every candidate of search_results is inspected and
\* evaluated in list order: when select_best_project is called the evaluation
\* list has exactly one entry per candidate and its i-th entry belongs to the
\* i-th candidate.
C30_OneEvaluationPerCandidate ==
    select_call.mode # "none" =>
        /\ Len(select_call.evals) = Len(search_results.items)
        /\ \A i \in 1..Len(select_call.evals) :
               /\ select_call.evals[i].pos = i
               /\ select_call.evals[i].url = search_results.items[i].url

C30_Witness ==
    /\ select_call.mode # "none"
    /\ Len(select_call.evals) = MaxRankCandidates
    /\ select_call.evals[1].url # select_call.evals[2].url
    /\ select_call.evals[1].suitability_score < select_call.evals[2].suitability_score

\* C31: the planning step never runs in the run of the evaluation step: the run
\* that stores evaluations and selected_project ends with evaluation_state =
\* "planning" and enhancement_plan still unset, and enhancement_plan is set only
\* by a later run that found evaluation_state = "planning".
C31_PlanningOnLaterTick ==
    [][/\ outcome' = "start_ok" =>
              /\ evaluation_state' = "planning"
              /\ ~Truthy(enhancement_plan')
       /\ (Truthy(enhancement_plan') /\ enhancement_plan' # enhancement_plan) =>
              /\ evaluation_state = "planning"
              /\ outcome' \in {"plan_ok", "plan_exc"}]_vars

C31_Witness ==
    /\ outcome = "plan_ok"
    /\ Truthy(enhancement_plan)
    /\ Truthy(selected_project)
    /\ evaluations # <<>>

\* C32: after a clarification round, idea_rating and idea_reflection of the
\* session are the rating and the reflection that evaluate_idea_clarity returned
\* for the combined text of that round.
C32_RoundStoresRatingAndReflection ==
    outcome = "clarification" =>
        \E ra \in RatingAnswers :
            /\ idea_rating = evaluate_idea_clarity(rate_arg, ra).rating
            /\ idea_reflection = evaluate_idea_clarity(rate_arg, ra).reflection

ProviderReturned ==
    service_run.fn = "provider_calls" /\ service_run.phase = "returned"

\* C33: search_github_projects calls the search provider at most twice per
\* search; the second call happens only if the first one raised, it uses the
\* first 10 words of the query truncated to 500 characters with the "basic"
\* depth, and a failure of the second call yields an error marker.
C33_AtMostOneRetry ==
    ProviderReturned =>
        LET made == service_run.provider_calls
        IN  /\ Len(made) <= 2
            /\ Len(made) = 2 => service_run.first = "raises"
            /\ Len(made) >= 1 =>
                   /\ made[1].search_depth = "advanced"
                   /\ JoinedLen(made[1].query, 1) <= MaxQueryLength
                   /\ Len(made[1].query) <= Len(service_run.words)
            /\ Len(made) = 2 =>
                   /\ made[2].search_depth = "basic"
                   /\ Len(made[2].query) <= MaxSimplifiedWords
                   /\ (Len(made[1].query) >= MaxSimplifiedWords
                          => Len(made[2].query) = MaxSimplifiedWords)
                   /\ made[2].query = SubSeq(made[1].query, 1, Len(made[2].query))
            /\ (service_run.first = "raises" /\ service_run.second = "raises") =>
                   /\ Len(made) = 2
                   /\ IsErrorMarker(service_run.result)

C33_Witness ==
    /\ ProviderReturned
    /\ service_run.first = "raises" /\ service_run.second = "raises"
    /\ Len(service_run.provider_calls) = 2
    /\ JoinedLen(service_run.words, 1) > MaxQueryLength
    /\ JoinedLen(service_run.provider_calls[1].query, 1) = MaxQueryLength
    /\ Len(service_run.provider_calls[2].query) < Len(service_run.provider_calls[1].query)
    /\ IsErrorMarker(service_run.result)

\* C34: if the first message is rated 8 or more and the search returns a
\* non-empty candidate list, then without further input, the runs being
\* scheduled fairly, the session eventually reaches evaluation_state =
\* "completed", whatever the services return.
C34_ClearIdeaCompletes ==
    (Len(texts) = 1 /\ idea_rating >= ClarityThreshold /\ IsList(search_results))
        ~> (evaluation_state = "completed")

\* C35: whenever evaluation_state is "completed", the rendered implementation
\* document has been persisted: the main plan file was written.
C35_CompletedHasPlanFile ==
    evaluation_state = "completed" => plan_file

\* C36: in every reachable state evaluation_state is one of "not_started",
\* "start", "planning", "done", "completed"; "github_usage_choice" and
\* "plan_options" are never reached and the branch of the GitHub-usage choice
\* never executes.
C36_EvaluationStates ==
    /\ evaluation_state \in {"not_started", "start", "planning", "done", "completed"}
    /\ ~ChoiceBranch
    /\ outcome # "choice"

C36_Witness ==
    /\ outcome = "search_ok"
    /\ IsList(search_results)
    /\ evaluation_state = "start"

\* C37: the data dependencies of the pipeline hold in every reachable state:
\* enhancement_plan set implies selected_project set; selected_project set
\* implies evaluations non-empty; evaluations non-empty implies search_results
\* is a non-empty candidate list with as many entries; search_results set
\* implies project_summary set.
C37_PipelineDependencies ==
    /\ Truthy(enhancement_plan) => Truthy(selected_project)
    /\ Truthy(selected_project) => evaluations # <<>>
    /\ evaluations # <<>> =>
           /\ IsList(search_results)
           /\ search_results.items # <<>>
           /\ Len(search_results.items) = Len(evaluations)
    /\ Truthy(search_results) => Truthy(project_summary)

C37_Witness ==
    /\ Truthy(enhancement_plan)
    /\ Truthy(selected_project)
    /\ Len(evaluations) = 1
    /\ IsList(search_results)
    /\ Truthy(project_summary)

SkipReturned == outcome \in {"skip_ok", "skip_err", "skip_failed"}

\* the session fields skip_clarification is not to touch
SkipFrame ==
    <<project_summary, original_idea, idea_rating, idea_reflection, evaluations,
      selected_project, enhancement_plan, auto_search, current_stage>>

FallbackReturned ==
    /\ service_run.fn = "create_fallback_implementation_doc"
    /\ service_run.phase = "returned"

\* C39: the two copies of create_fallback_implementation_doc, of api.py and of
\* utils.py, return the same document for every summary, selected project and
\* plan, with and without steps, and raise on the same inputs.
C39_FallbackCopiesAgree ==
    FallbackReturned => service_run.api_document = service_run.utils_document

C39_Witness ==
    /\ FallbackReturned
    /\ service_run.plan.steps = "none"
    /\ service_run.summary.kind = "error"
    /\ service_run.utils_document.kind = "fallback"
    /\ service_run.utils_document.steps = "skeleton"
    /\ service_run.api_document.heading = "Mini-Project"

====
